---- MODULE Spec2Model ----
(***************************************************************************)
(* ScholarOne API tool: the JSON flattener (core/flatten.py), the row      *)
(* assemblers flatten_json of the two GUI applications, the identifier     *)
(* normaliser, the batch planner and the query loop.                       *)
(*                                                                         *)
(* Text (mapping keys, flat path keys, identifier text) is a sequence of   *)
(* one-character strings, so that concatenation, joining, splitting and    *)
(* decimal formatting are computed character by character.                 *)
(***************************************************************************)
EXTENDS Integers, Sequences, FiniteSets, TLC

VARIABLES
    obj,        \* the parsed JSON document handed to the flattener
    prefix,     \* the site label handed to flatten_json
    op,         \* which function was applied to obj
    raised,     \* whether that call raised
    items,      \* the dict flatten / _recurse returned
    rows,       \* the row records flatten_json returned
    app,        \* "email" (email_scholarone_gui_app) or "gui" (scholarone_gui_app)
    endpoint,   \* the endpoint selected
    id_text,    \* the text of the identifier box
    id_values,  \* normalize_ids(id_text)
    batches,    \* the planned batches
    pc,         \* where the handler stands
    sites,      \* the sites selected, in iteration order
    params_date,\* the date parameters of the run
    si,         \* the position of the current site in sites
    bi,         \* the position of the current batch in batches
    all_rows,   \* all_rows / full_entries: the row collection of the run
    requests,   \* the query parameters of the GETs of the run, in order
    responses,  \* the document, if any, each GET of the run brought, in order
    last_df,    \* self._last_df of scholarone_gui_app
    written,    \* the rows of the file the latest step wrote, <<>> if none
    status      \* the latest message of the handler

rowVars == <<obj, prefix, op, raised, items, rows>>
idVars == <<app, endpoint, id_text, id_values, batches, pc>>
runVars == <<sites, params_date, si, bi, all_rows, requests, responses, last_df, written,
             status>>
vars == <<obj, prefix, op, raised, items, rows, app, endpoint, id_text, id_values, batches, pc,
          sites, params_date, si, bi, all_rows, requests, responses, last_df, written,
          status>>

-----------------------------------------------------------------------------
(* JSON values.  A mapping keeps its entries in insertion order.           *)

Null == [t |-> "null"]
JInt(n) == [t |-> "int", n |-> n]
JStr(s) == [t |-> "str", s |-> s]
JList(elems) == [t |-> "list", elems |-> elems]
JDict(kvs) == [t |-> "dict", kvs |-> kvs]

\* isinstance(obj, Mapping) / isinstance(o, dict)
IsMapping(o) == o.t = "dict"
\* a test that takes only strings for sequences
IsSequence_StringsOnly(o) == o.t = "str"

\* isinstance(obj, Sequence): lists and, in Python, strings too
IsSequence(o) == o.t \in {"list", "str"}
\* isinstance(obj, (str, bytes, bytearray))
IsStrLike(o) == o.t = "str"
\* isinstance(o, list)
IsList(o) == o.t = "list"

\* Python truth value of a JSON value (used by `or` and `if`)
Truthy(o) ==
    CASE o.t = "null" -> FALSE
      [] o.t = "int" -> o.n # 0
      [] o.t = "str" -> o.s # <<>>
      [] o.t = "list" -> o.elems # <<>>
      [] o.t = "dict" -> o.kvs # <<>>

-----------------------------------------------------------------------------
(* Text helpers.                                                           *)

Digits == <<"0", "1", "2", "3", "4", "5", "6", "7", "8", "9">>

\* str(i) / f'{i}' of a non-negative integer: its decimal digits
RECURSIVE IntStr(_)
IntStr(i) == IF i < 10 THEN <<Digits[i + 1]>>
             ELSE IntStr(i \div 10) \o <<Digits[(i % 10) + 1]>>

\* sep.join(parts)
RECURSIVE Join(_, _)
Join(sep, parts) ==
    IF parts = <<>> THEN <<>>
    ELSE IF Len(parts) = 1 THEN parts[1]
    ELSE parts[1] \o sep \o Join(sep, Tail(parts))

Dot == <<".">>
Underscore == <<"_">>
site_name == <<"s", "i", "t", "e", "_", "n", "a", "m", "e">>

-----------------------------------------------------------------------------
(* Python dict of flat path key -> scalar, as a function.                  *)

EmptyDict == [k \in {} |-> Null]
\* d.update(other): the entries of other replace those of d
Update(d, other) == other @@ d
\* d[k] = v
SetItem(d, k, v) == (k :> v) @@ d

-----------------------------------------------------------------------------
(* core/flatten.py                                                         *)

\* a mapping key that forgets the path above it
MappingKey_NoParent(parent_key, sep, k) == k

\* line 7: new_key for the value under mapping key k
MappingKey(parent_key, sep, k) ==
    IF parent_key # <<>> THEN parent_key \o sep \o k ELSE k

\* positions counted from 0, as enumerate does by default
SequenceKey_ZeroBased(parent_key, i) ==
    IF parent_key # <<>> THEN parent_key \o Underscore \o IntStr(i - 1) ELSE IntStr(i - 1)

\* line 11: new_key for the element at 1-based position i
SequenceKey(parent_key, i) ==
    IF parent_key # <<>> THEN parent_key \o Underscore \o IntStr(i) ELSE IntStr(i)

RECURSIVE flatten(_, _, _)
RECURSIVE flatten_mapping(_, _, _, _, _)
RECURSIVE flatten_sequence(_, _, _, _, _)

\* lines 6-8: the loop over obj.items(), from the j-th entry on
flatten_mapping(kvs, j, parent_key, sep, acc) ==
    IF j > Len(kvs) THEN acc
    ELSE flatten_mapping(kvs, j + 1, parent_key, sep,
            Update(acc, flatten(kvs[j][2], MappingKey(parent_key, sep, kvs[j][1]), sep)))

\* lines 10-12: the loop over enumerate(obj, start=1), from position i on
flatten_sequence(elems, i, parent_key, sep, acc) ==
    IF i > Len(elems) THEN acc
    ELSE flatten_sequence(elems, i + 1, parent_key, sep,
            Update(acc, flatten(elems[i], SequenceKey(parent_key, i), sep)))

flatten(o, parent_key, sep) ==
    IF IsMapping(o) THEN flatten_mapping(o.kvs, 1, parent_key, sep, EmptyDict)
    ELSE IF IsSequence(o) /\ ~IsStrLike(o)
         THEN flatten_sequence(o.elems, 1, parent_key, sep, EmptyDict)
    ELSE SetItem(EmptyDict, parent_key, o)

-----------------------------------------------------------------------------
(* apps/gui/email_scholarone_gui_app.py: flatten_json and its _recurse     *)

RECURSIVE _recurse(_, _)
RECURSIVE _recurse_dict(_, _, _, _)
RECURSIVE _recurse_list(_, _, _, _)

\* lines 146-148: the loop over o.items(), from the j-th entry on
_recurse_dict(kvs, j, parent_key, acc) ==
    IF j > Len(kvs) THEN acc
    ELSE LET k == kvs[j][1]
             new_key == IF parent_key # <<>> THEN parent_key \o Dot \o k ELSE k
         IN _recurse_dict(kvs, j + 1, parent_key, Update(acc, _recurse(kvs[j][2], new_key)))

\* lines 151-153: the loop over enumerate(o, start=1), from position i on
_recurse_list(elems, i, parent_key, acc) ==
    IF i > Len(elems) THEN acc
    ELSE LET new_key == IF parent_key # <<>> THEN parent_key \o Underscore \o IntStr(i)
                        ELSE IntStr(i)
         IN _recurse_list(elems, i + 1, parent_key, Update(acc, _recurse(elems[i], new_key)))

_recurse(o, parent_key) ==
    IF IsMapping(o) THEN _recurse_dict(o.kvs, 1, parent_key, EmptyDict)
    ELSE IF IsList(o) THEN _recurse_list(o.elems, 1, parent_key, EmptyDict)
    ELSE SetItem(EmptyDict, parent_key, o)

Response == <<"R", "e", "s", "p", "o", "n", "s", "e">>
result == <<"r", "e", "s", "u", "l", "t">>
submission == <<"s", "u", "b", "m", "i", "s", "s", "i", "o", "n">>

\* the outcome of an expression: a value, or an exception raised
Returned(v) == [exc |-> FALSE, val |-> v]
Raised == [exc |-> TRUE, val |-> Null]

\* d.get(k, default) of a dict d
dict_get(d, k, default) ==
    IF \E j \in 1..Len(d.kvs) : d.kvs[j][1] = k
    THEN d.kvs[CHOOSE j \in 1..Len(d.kvs) : d.kvs[j][1] = k][2]
    ELSE default

\* o.get(path[1], {}).get(path[2], {}) ... .get(path[n], last_default):
\* only a dict has .get, anything else raises AttributeError
RECURSIVE get_chain(_, _, _)
get_chain(o, path, last_default) ==
    IF ~IsMapping(o) THEN Raised
    ELSE IF Len(path) = 1 THEN Returned(dict_get(o, path[1], last_default))
    ELSE get_chain(dict_get(o, path[1], JDict(<<>>)), Tail(path), last_default)

\* flat = {"site_name": prefix}
SiteRow(label) == SetItem(EmptyDict, site_name, JStr(label))

\* lines 163-164 / 171-172: flat = {"site_name": prefix}; flat.update(_recurse(item))
email_row(item, label) == Update(SiteRow(label), _recurse(item, <<>>))

\* lines 158-174.  The lookup and the loop run inside try/except Exception: pass
email_flatten_json(o, label) ==
    LET submissions == get_chain(o, <<Response, result, submission>>, Null)
    IN IF ~submissions.exc /\ IsList(submissions.val)
       THEN [i \in 1..Len(submissions.val.elems) |-> email_row(submissions.val.elems[i], label)]
       ELSE <<email_row(o, label)>>

-----------------------------------------------------------------------------
(* apps/gui/scholarone_gui_app.py: flatten_json and its recurse            *)

\* the parameter index: index=None is <<>>, index=i is <<i>>
NoIndex == <<>>

\* lines 60-62: the first suffix >= the given one with f"{flat_key}_{suffix}" unused
RECURSIVE free_suffix(_, _, _)
free_suffix(flat, flat_key, suffix) ==
    IF (flat_key \o Underscore \o IntStr(suffix)) \in DOMAIN flat
    THEN free_suffix(flat, flat_key, suffix + 1)
    ELSE suffix

\* a write under the key as first computed, whatever the row holds
recurse_leaf_Overwrite(o, path, index, flat) ==
    LET joined == Join(Dot, path)
    IN SetItem(flat, IF index # NoIndex THEN joined \o Underscore \o IntStr(index[1] + 1)
                     ELSE joined, o)

\* lines 56-64: the write of a leaf into the row being built
recurse_leaf(o, path, index, flat) ==
    LET joined == Join(Dot, path)
        flat_key == IF index # NoIndex THEN joined \o Underscore \o IntStr(index[1] + 1)
                    ELSE joined
        final_key == IF flat_key \in DOMAIN flat
                     THEN flat_key \o Underscore \o IntStr(free_suffix(flat, flat_key, 2))
                     ELSE flat_key
    IN SetItem(flat, final_key, o)

RECURSIVE recurse(_, _, _, _)
RECURSIVE recurse_dict(_, _, _, _)
RECURSIVE recurse_list(_, _, _, _)

\* lines 50-51: recurse(v, path + [k]) for the entries from the j-th on
recurse_dict(kvs, j, path, flat) ==
    IF j > Len(kvs) THEN flat
    ELSE recurse_dict(kvs, j + 1, path, recurse(kvs[j][2], Append(path, kvs[j][1]), NoIndex, flat))

\* lines 53-54: recurse(item, path, index=i), i counting from 0
recurse_list(elems, i, path, flat) ==
    IF i >= Len(elems) THEN flat
    ELSE recurse_list(elems, i + 1, path, recurse(elems[i + 1], path, <<i>>, flat))

\* lines 46-64: the row `flat` of the enclosing scope is threaded through
recurse(o, path, index, flat) ==
    IF IsMapping(o) THEN recurse_dict(o.kvs, 1, path, flat)
    ELSE IF IsList(o) THEN recurse_list(o.elems, 0, path, flat)
    ELSE recurse_leaf(o, path, index, flat)

\* lines 69-70 / 73-74: flat = {"site_name": prefix}; recurse(item, [])
gui_row(item, label) == recurse(item, <<>>, NoIndex, SiteRow(label))

\* line 66: A or B or C; no try/except around it
gui_content(o) ==
    LET A == get_chain(o, <<Response, result, submission>>, Null)
        B == get_chain(o, <<Response, result>>, JDict(<<>>))
        C == get_chain(o, <<result>>, JDict(<<>>))
    IN IF A.exc THEN Raised
       ELSE IF Truthy(A.val) THEN A
       ELSE IF B.exc THEN Raised
       ELSE IF Truthy(B.val) THEN B
       ELSE C

\* lines 44-77: the rows returned, or the exception that leaves the function
gui_flatten_json(o, label) ==
    LET content == gui_content(o)
    IN IF content.exc THEN [exc |-> TRUE, rows |-> <<>>]
       ELSE IF IsList(content.val)
       THEN [exc |-> FALSE,
             rows |-> [i \in 1..Len(content.val.elems) |-> gui_row(content.val.elems[i], label)]]
       ELSE [exc |-> FALSE, rows |-> <<gui_row(o, label)>>]

-----------------------------------------------------------------------------
(* Endpoint catalogues.  A conf is a dict: only the keys written in the    *)
(* source are in its domain.  Python's None is the string "None" where a   *)
(* config value may be a string, and the sequence <<"None">> where an      *)
(* identifier may stand.                                                   *)

NoneStr == "None"
None == <<"None">>

\* conf.get(key, default)
conf_get(conf, key, default) == IF key \in DOMAIN conf THEN conf[key] ELSE default
\* the truth value of a str-or-None config value
TruthyStr(s) == s \notin {NoneStr, ""}

\* email_scholarone_gui_app.py lines 43-117
EMAIL_ENDPOINTS ==
    [getSubmissionInfoFull |->
        [path |-> "/api/s1m/v9/submissions/full/metadata/submissionids", requires_date |-> FALSE],
     getDocumentInfoFull |->
        [path |-> "/api/s1m/v9/submissions/full/metadata/documentids", requires_date |-> FALSE],
     getPersonInfoFullID |->
        [path |-> "/api/s1m/v7/person/full/personids/search", requires_date |-> FALSE],
     getPersonInfoFullEmail |->
        [path |-> "/api/s1m/v7/person/full/email/search", requires_date |-> FALSE,
         id_kind |-> "emails", id_param |-> "primary_email", batch_size |-> 1],
     getAuthorInfoFull |->
        [path |-> "/api/s1m/v3/submissions/full/contributors/authors/submissionids",
         requires_date |-> FALSE],
     getEditorAssignmentsByDate |->
        [path |-> "/api/s1m/v1/submissions/full/editorAssignmentsByDate", requires_date |-> TRUE],
     getIDsByDate |->
        [path |-> "/api/s1m/v4/submissions/full/idsByDate", requires_date |-> TRUE],
     getSubmissionMetadataInfo |->
        [path |-> "/api/s1m/v3/submissions/full/metadatainfo/submissionids",
         requires_date |-> FALSE],
     getDocumentMetadataInfo |->
        [path |-> "/api/s1m/v3/submissions/full/metadatainfo/documentids",
         requires_date |-> FALSE],
     getSubmissionReviewerInfoFull |->
        [path |-> "/api/s1m/v2/submissions/full/reviewer/submissionids", requires_date |-> FALSE],
     getDocumentReviewerInfoFull |->
        [path |-> "/api/s1m/v2/submissions/full/reviewer/documentids", requires_date |-> FALSE],
     getSubmissionVersions |->
        [path |-> "/api/s1m/v2/submissions/full/revisions/submissionids", requires_date |-> FALSE],
     getDocumentVersions |->
        [path |-> "/api/s1m/v2/submissions/full/revisions/documentids", requires_date |-> FALSE]]

\* scholarone_gui_app.py lines 19-33
GUI_ENDPOINTS ==
    [getSubmissionInfoFull |->
        [path |-> "/api/s1m/v9/submissions/full/metadata/submissionids", requires_date |-> FALSE,
         id_kind |-> "submissionIds"],
     getDocumentInfoFull |->
        [path |-> "/api/s1m/v9/submissions/full/metadata/documentids", requires_date |-> FALSE,
         id_kind |-> "documentIds"],
     getPersonInfoFullID |->
        [path |-> "/api/s1m/v7/person/full/personids/search", requires_date |-> FALSE,
         id_kind |-> "personIds"],
     getPersonInfoFullEmail |->
        [path |-> "/api/s1m/v7/person/full/email/search", requires_date |-> FALSE,
         id_kind |-> "emails"],
     getAuthorInfoFull |->
        [path |-> "/api/s1m/v3/submissions/full/contributors/authors/submissionids",
         requires_date |-> FALSE, id_kind |-> "submissionIds"],
     getEditorAssignmentsByDate |->
        [path |-> "/api/s1m/v1/submissions/full/editorAssignmentsByDate", requires_date |-> TRUE,
         id_kind |-> NoneStr],
     getIDsByDate |->
        [path |-> "/api/s1m/v4/submissions/full/idsByDate", requires_date |-> TRUE,
         id_kind |-> NoneStr],
     getSubmissionMetadataInfo |->
        [path |-> "/api/s1m/v3/submissions/full/metadatainfo/submissionids",
         requires_date |-> FALSE, id_kind |-> "submissionIds"],
     getDocumentMetadataInfo |->
        [path |-> "/api/s1m/v3/submissions/full/metadatainfo/documentids",
         requires_date |-> FALSE, id_kind |-> "documentIds"],
     getSubmissionReviewerInfoFull |->
        [path |-> "/api/s1m/v2/submissions/full/reviewer/submissionids", requires_date |-> FALSE,
         id_kind |-> "submissionIds"],
     getDocumentReviewerInfoFull |->
        [path |-> "/api/s1m/v2/submissions/full/reviewer/documentids", requires_date |-> FALSE,
         id_kind |-> "documentIds"],
     getSubmissionVersions |->
        [path |-> "/api/s1m/v2/submissions/full/revisions/submissionids", requires_date |-> FALSE,
         id_kind |-> "submissionIds"],
     getDocumentVersions |->
        [path |-> "/api/s1m/v2/submissions/full/revisions/documentids", requires_date |-> FALSE,
         id_kind |-> "documentIds"]]

ENDPOINTS(application) == IF application = "email" THEN EMAIL_ENDPOINTS ELSE GUI_ENDPOINTS

-----------------------------------------------------------------------------
(* normalize_ids (the same expression in both applications)                *)

\* str.isspace() of one character, which is also what \s matches
IsSpace(c) == c \in {" ", "\t", "\n", "\r", "\f"}
\* the class without the pipe
IsSeparator_NoPipe(c) == IsSpace(c) \/ c \in {",", ";"}

\* one character of the class [\s,;|]
IsSeparator(c) == IsSpace(c) \/ c \in {",", ";", "|"}

\* s.strip(): s without its leading and trailing whitespace
strip(s) ==
    LET kept == {i \in 1..Len(s) : ~IsSpace(s[i])}
    IN IF kept = {} THEN <<>>
       ELSE SubSeq(s, CHOOSE i \in kept : \A j \in kept : i <= j,
                      CHOOSE i \in kept : \A j \in kept : j <= i)

\* re.split(r"[\s,;|]+", s): the leftmost match is the first separator and all
\* the separators that follow it; the piece before it is cut off and the rest
\* is split in turn.  A string without a match is returned whole.
RECURSIVE re_split(_)
re_split(s) ==
    LET seps == {i \in 1..Len(s) : IsSeparator(s[i])}
    IN IF seps = {} THEN <<s>>
       ELSE LET first == CHOOSE i \in seps : \A j \in seps : i <= j
                ends == {j \in first..Len(s) : \A k \in first..j : IsSeparator(s[k])}
                last == CHOOSE j \in ends : \A k \in ends : k <= j
            IN <<SubSeq(s, 1, first - 1)>> \o re_split(SubSeq(s, last + 1, Len(s)))

\* [p.strip() for p in parts if p.strip()]
RECURSIVE strip_nonblank(_)
strip_nonblank(parts) ==
    IF parts = <<>> THEN <<>>
    ELSE IF strip(parts[1]) # <<>> THEN <<strip(parts[1])>> \o strip_nonblank(Tail(parts))
    ELSE strip_nonblank(Tail(parts))

\* email app lines 272-275, scholarone_gui_app lines 167-168
normalize_ids(text) == strip_nonblank(re_split(strip(text)))

-----------------------------------------------------------------------------
(* Batch planning                                                          *)

\* list(range(start, stop, step)) for step >= 1
RECURSIVE range(_, _, _)
range(start, stop, step) ==
    IF start >= stop THEN <<>> ELSE <<start>> \o range(start + step, stop, step)

\* xs[i:j] for 0 <= i <= j
slice(xs, i, j) == SubSeq(xs, i + 1, IF j < Len(xs) THEN j ELSE Len(xs))

\* a bigger step between the batches than their size: the tokens between are lost
chunks_Gapped(xs, size) ==
    LET starts == range(0, Len(xs), size + 1)
    IN [b \in 1..Len(starts) |-> slice(xs, starts[b], starts[b] + size)]

\* [xs[i:i+size] for i in range(0, len(xs), size)]
chunks(xs, size) ==
    LET starts == range(0, Len(xs), size)
    IN [b \in 1..Len(starts) |-> slice(xs, starts[b], starts[b] + size)]

DefaultBatchSize == 25

\* email app lines 295-297 and 307-311
email_batches(conf, ids) ==
    LET id_kind == conf_get(conf, "id_kind", NoneStr)
        batch_size == conf_get(conf, "batch_size", DefaultBatchSize)
    IN IF TruthyStr(id_kind) /\ ids # <<>> THEN chunks(ids, batch_size) ELSE <<<<None>>>>

GuiBatchSize == 25

\* scholarone_gui_app lines 212 and 222-227
gui_batches(conf, ids) ==
    LET id_kind == conf_get(conf, "id_kind", NoneStr)
    IN IF TruthyStr(id_kind) /\ ids # <<>> THEN chunks(ids, GuiBatchSize) ELSE <<<<None>>>>

-----------------------------------------------------------------------------
(* Query parameters of one GET: a dict from parameter name to text.        *)

json_text == <<"j", "s", "o", "n">>
Comma == <<",">>

\* as_csv(items) / ",".join(batch)
as_csv(batch) == Join(Comma, batch)

\* `x or default` for a str-or-None config value
or_default(s, default) == IF TruthyStr(s) THEN s ELSE default

\* email app lines 316-329; dates is params_date: {} or {from_time, to_time}
email_query(conf, site, dates, batch) ==
    LET id_kind == conf_get(conf, "id_kind", NoneStr)
        id_param == conf_get(conf, "id_param", NoneStr)
        q == Update(("_type" :> json_text) @@ ("site_name" :> site), dates)
    IN IF TruthyStr(id_kind) /\ batch # <<None>>
       THEN IF id_kind = "emails"
            THEN SetItem(q, or_default(id_param, "primary_email"), batch[1])
            ELSE SetItem(q, or_default(id_param, "ids"),
                         IF Len(batch) = 1 THEN batch[1] ELSE as_csv(batch))
       ELSE q

\* scholarone_gui_app lines 215-217 and 230-233
gui_query(conf, site, dates, batch) ==
    LET id_kind == conf_get(conf, "id_kind", NoneStr)
        q == Update(("_type" :> json_text) @@ ("site_name" :> site), dates)
    IN IF TruthyStr(id_kind) /\ batch # <<None>>
       THEN SetItem(q, "ids", as_csv(batch))
       ELSE q

-----------------------------------------------------------------------------
(* Inputs.                                                                 *)

MaxNodes == 4

Keys == {<<"a">>, <<"b">>, <<"a", "_", "1">>, <<"a", ".", "b">>}
Scalars == {JInt(1), JStr(<<"x">>)}

\* the injective key sequences of length m
KeySeqs(m) == {ks \in [1..m -> Keys] : \A i, j \in 1..m : i < j => ks[i] # ks[j]}

RECURSIVE ValuesOfSize(_)
RECURSIVE ForestsOfSize(_)

\* the sequences of JSON values with n nodes in all
ForestsOfSize(n) ==
    IF n = 0 THEN {<<>>}
    ELSE UNION {{<<v>> \o f : v \in ValuesOfSize(k), f \in ForestsOfSize(n - k)} : k \in 1..n}

\* the containers whose children are the forest f: the list, and the mappings
\* under every choice of distinct keys
ContainersOf(f) ==
    {JList(f)} \cup {JDict([i \in 1..Len(f) |-> <<ks[i], f[i]>>]) : ks \in KeySeqs(Len(f))}

\* the JSON values with exactly n nodes (containers and scalars)
ValuesOfSize(n) ==
    IF n = 1 THEN Scalars \cup {JList(<<>>), JDict(<<>>)}
    ELSE UNION {ContainersOf(f) : f \in ForestsOfSize(n - 1)}

\* obj is a JSON value of at most MaxNodes nodes
IsRecord(o) ==
    \E n \in 1..MaxNodes :
        IF n = 1 THEN o \in ValuesOfSize(1)
        ELSE \E f \in ForestsOfSize(n - 1) : o \in ContainersOf(f)

MaxRows == 2

\* the elements of the record lists of the response envelopes
EnvRecords ==
    {JInt(1), JStr(<<"x">>), Null, JList(<<JInt(1)>>)}
    \cup {JDict(<< <<k, v>> >>) : k \in {<<"a">>, site_name}, v \in Scalars}

\* what sits where the envelope is expected to hold the record list
Contents ==
    {JList(l) : l \in UNION {[1..n -> EnvRecords] : n \in 0..MaxRows}}
    \cup {Null, JInt(0), JInt(1), JStr(<<>>), JStr(<<"x">>), JDict(<<>>),
          JDict(<< <<<<"a">>, JInt(1)>> >>)}

Wrap(k, v) == JDict(<< <<k, v>> >>)

\* obj is a response envelope, well-formed or not
IsEnvelope(o) ==
    \/ \E c \in Contents : o = Wrap(Response, Wrap(result, Wrap(submission, c)))
    \/ \E c \in Contents : o = Wrap(Response, Wrap(result, c))
    \/ \E c \in Contents : o = Wrap(Response, c)
    \/ \E c \in Contents : o = Wrap(result, c)
    \/ \E c \in Contents :
         \E r \in {JDict(<<>>), Wrap(result, JDict(<<>>)),
                   Wrap(result, Wrap(submission, JList(<<>>))),
                   Wrap(result, Wrap(submission, JList(<<JInt(1)>>)))} :
            o = JDict(<< <<Response, r>>, <<result, c>> >>)

\* payloads outside the two families: a field named site_name, an empty key,
\* null leaves, {"a": [1, {"b": 2}]} and {"a": [[1], [2], [3]]}
ExtraPayloads ==
    {JDict(<< <<site_name, v>> >>) : v \in Scalars}
    \cup {JDict(<< <<<<"a">>, v>>, <<site_name, JStr(<<"x">>)>> >>) : v \in Scalars}
    \cup {JDict(<< <<<<>>, JDict(<< <<<<"a">>, JInt(1)>> >>)>>, <<<<"a">>, v>> >>) : v \in Scalars}
    \cup {JDict(<< <<<<>>, v>> >>) : v \in Scalars \cup {Null}}
    \cup {Null, JList(<<Null, Null>>), JDict(<< <<<<"a">>, Null>> >>)}
    \cup {JDict(<< <<<<"a">>, JList(<<JInt(1), JDict(<< <<<<"b">>, JInt(2)>> >>)>>)>> >>)}
    \cup {JDict(<< <<<<"a">>, JList(<<JList(<<JInt(1)>>), JList(<<JInt(2)>>),
                                     JList(<<JInt(3)>>)>>)>> >>)}

Sites == {<<"d", "e", "c", "a">>, <<"i", "s", "r">>}

-----------------------------------------------------------------------------
(* Specification of the flattener and the row assemblers: a parsed JSON    *)
(* document is handed to one of them.                                      *)

\* self._last_df: None, or the DataFrame of the rows
NoDf == [present |-> FALSE, rows |-> <<>>]
DataFrame(rs) == [present |-> TRUE, rows |-> rs]

RunIdle ==
    /\ sites = <<>>
    /\ params_date = EmptyDict
    /\ si = 0
    /\ bi = 0
    /\ all_rows = <<>>
    /\ requests = <<>>
    /\ responses = <<>>
    /\ last_df = NoDf
    /\ written = <<>>
    /\ status = "ready"

IdsIdle ==
    /\ app = "none"
    /\ endpoint = "none"
    /\ id_text = <<>>
    /\ id_values = <<>>
    /\ batches = <<>>
    /\ pc = "off"

RowsIdle ==
    /\ obj = Null
    /\ prefix = <<>>
    /\ op = "off"
    /\ raised = FALSE
    /\ items = EmptyDict
    /\ rows = <<>>

RowsInit ==
    /\ \/ IsRecord(obj)
       \/ IsEnvelope(obj)
       \/ obj \in ExtraPayloads
    /\ prefix = <<>>
    /\ op = "init"
    /\ raised = FALSE
    /\ items = EmptyDict
    /\ rows = <<>>
    /\ IdsIdle
    /\ RunIdle

\* core.flatten.flatten(obj)
DoFlatten ==
    /\ op = "init"
    /\ op' = "flatten"
    /\ items' = flatten(obj, <<>>, Dot)
    /\ UNCHANGED <<obj, prefix, raised, rows>>
    /\ UNCHANGED idVars
    /\ UNCHANGED runVars

\* _recurse(obj) of the email application
DoRecurse ==
    /\ op = "init"
    /\ op' = "_recurse"
    /\ items' = _recurse(obj, <<>>)
    /\ UNCHANGED <<obj, prefix, raised, rows>>
    /\ UNCHANGED idVars
    /\ UNCHANGED runVars

\* flatten_json(obj, prefix=site) of the email application
DoEmailRows ==
    /\ op = "init"
    /\ \E site \in Sites :
          /\ prefix' = site
          /\ rows' = email_flatten_json(obj, site)
    /\ op' = "email"
    /\ UNCHANGED <<obj, raised, items>>
    /\ UNCHANGED idVars
    /\ UNCHANGED runVars

\* flatten_json(obj, prefix=site) of scholarone_gui_app
DoGuiRows ==
    /\ op = "init"
    /\ \E site \in Sites :
          /\ prefix' = site
          /\ rows' = gui_flatten_json(obj, site).rows
          /\ raised' = gui_flatten_json(obj, site).exc
    /\ op' = "gui"
    /\ UNCHANGED <<obj, items>>
    /\ UNCHANGED idVars
    /\ UNCHANGED runVars

RowsNext == DoFlatten \/ DoRecurse \/ DoEmailRows \/ DoGuiRows

SpecRows == RowsInit /\ [][RowsNext]_vars

-----------------------------------------------------------------------------
(* Specification of the identifier normaliser and the batch planner: a     *)
(* text of the identifier box is normalised, then planned for an endpoint. *)

MaxTextLen == 4
MaxIds == 27

Chars == {"1", "a", " ", ",", ";", "|"}
Newline == <<"\n">>

\* "1<sep>2<sep>...<sep>n": n distinct identifiers
NumberedText(n, sep) == Join(sep, [i \in 1..n |-> IntStr(i)])

\* the placeholder of the identifier box, and the line the box shows
ExampleText ==
    <<"1", "2", "3", "4", "5", " ", " ", " ", "6", "7", "8", "9", "0", ";", " ",
      "a", "@", "b", ".", "c", "o", "m", " ", "|", " ", "c", "@", "d", ".", "o", "r", "g">>

IsIdText(text) ==
    \/ \E n \in 0..MaxTextLen : text \in [1..n -> Chars]
    \/ \E n \in 1..MaxIds : \E sep \in {Newline, <<",", " ">>, <<"\t">>} :
          text = NumberedText(n, sep)
    \/ text = ExampleText

Apps == {"email", "gui"}

IdsInit ==
    /\ RowsIdle
    /\ app = "none"
    /\ endpoint = "none"
    /\ IsIdText(id_text)
    /\ id_values = <<>>
    /\ batches = <<>>
    /\ pc = "text"
    /\ RunIdle

\* ids = self.normalize_ids(self.id_entry.toPlainText())
DoNormalize ==
    /\ pc = "text"
    /\ pc' = "normalized"
    /\ id_values' = normalize_ids(id_text)
    /\ UNCHANGED <<app, endpoint, id_text, batches>>
    /\ UNCHANGED rowVars
    /\ UNCHANGED runVars

\* the batches of run_query of the email application, for one endpoint
DoPlanEmail ==
    /\ pc = "normalized"
    /\ pc' = "planned"
    /\ app' = "email"
    /\ \E e \in DOMAIN EMAIL_ENDPOINTS :
          /\ endpoint' = e
          /\ batches' = email_batches(EMAIL_ENDPOINTS[e], id_values)
    /\ UNCHANGED <<id_text, id_values>>
    /\ UNCHANGED rowVars
    /\ UNCHANGED runVars

\* the batches of submit_request of scholarone_gui_app, for one endpoint
DoPlanGui ==
    /\ pc = "normalized"
    /\ pc' = "planned"
    /\ app' = "gui"
    /\ \E e \in DOMAIN GUI_ENDPOINTS :
          /\ endpoint' = e
          /\ batches' = gui_batches(GUI_ENDPOINTS[e], id_values)
    /\ UNCHANGED <<id_text, id_values>>
    /\ UNCHANGED rowVars
    /\ UNCHANGED runVars

IdsNext == DoNormalize \/ DoPlanEmail \/ DoPlanGui

SpecIds == IdsInit /\ [][IdsNext]_vars

-----------------------------------------------------------------------------
(* The query run of the two applications.  The click handler runs to its   *)
(* end without returning to the event loop; it is cut at its GETs, where   *)
(* the outside world answers.  pc is "idle" before the first click,        *)
(* "loop" while a (site, batch) request is due, "done" after the handler   *)
(* returned.                                                               *)

MaxRunIds == 2

RunEndpoints == {"getSubmissionInfoFull", "getPersonInfoFullEmail", "getIDsByDate"}

\* self.site_list.selectedItems(), in list order
SiteSelections ==
    {<<>>, <<<<"d", "e", "c", "a">>>>, <<<<"i", "s", "r">>>>,
     <<<<"d", "e", "c", "a">>, <<"i", "s", "r">>>>}

\* the identifier box holding the first n of these tokens, one per line
RunTokens == << <<"7">>, <<"a", "@", "b">>, <<"7">>, <<"9">> >>
RunTexts == {Join(Newline, SubSeq(RunTokens, 1, n)) : n \in 0..MaxRunIds}

\* {"Response": {"result": {"submission": [{"id": 1}, {"id": 2}]}}}
TwoSubmissions ==
    JDict(<< <<Response, JDict(<< <<result, JDict(<< <<submission,
        JList(<<JDict(<< <<<<"i", "d">>, JInt(1)>> >>),
                JDict(<< <<<<"i", "d">>, JInt(2)>> >>)>>)>> >>)>> >>)>> >>)

\* {"Response": {"result": {"submission": []}}}
NoSubmissions ==
    JDict(<< <<Response, JDict(<< <<result, JDict(<< <<submission, JList(<<>>)>> >>)>> >>)>> >>)

\* what one GET can come to: an exception in session.get, a status other than
\* 200, an empty body, a body r.json() rejects, or a parsed document
Outcomes ==
    {[kind |-> k, payload |-> Null] : k \in {"error", "status", "empty", "badjson"}}
    \cup {[kind |-> "json", payload |-> p] : p \in {TwoSubmissions, NoSubmissions, JInt(1)}}

\* the dates of the date widgets, as qdate.toString("yyyy-MM-dd") gives them
StartDate == <<"2", "0", "2", "5", "-", "0", "1", "-", "0", "1">>
EndDate == <<"2", "0", "2", "5", "-", "0", "1", "-", "3", "1">>

\* email app lines 129-133
to_utc_date_str(qdate, end_of_day) ==
    IF end_of_day THEN qdate \o <<"T", "2", "3", ":", "5", "9", ":", "5", "9", "Z">>
    ELSE qdate \o <<"T", "0", "0", ":", "0", "0", ":", "0", "0", "Z">>

\* email app lines 286-290
email_params_date(conf) ==
    IF conf_get(conf, "requires_date", FALSE)
    THEN ("from_time" :> to_utc_date_str(StartDate, FALSE))
         @@ ("to_time" :> to_utc_date_str(EndDate, TRUE))
    ELSE EmptyDict

\* the time of day the date widgets of scholarone_gui_app show
Midnight == <<"0", "0", ":", "0", "0", ":", "0", "0">>

\* scholarone_gui_app lines 170-174, for a text the parser accepts, given as
\* the date and the time of day it parses to: dt.strftime("%Y-%m-%dT%H:%M:%SZ")
convert_to_utc(date, time) == date \o <<"T">> \o time \o <<"Z">>

\* scholarone_gui_app lines 203-206 and 216-217
gui_params_date(conf) ==
    IF conf["requires_date"]
    THEN ("from_time" :> convert_to_utc(StartDate, Midnight))
         @@ ("to_time" :> convert_to_utc(EndDate, Midnight))
    ELSE EmptyDict

\* an extend that skips the rows already collected
extend_Unique(collected, new_rows) ==
    collected \o SelectSeq(new_rows, LAMBDA r : \A k \in 1..Len(collected) : collected[k] # r)

\* all_rows.extend(rows) / full_entries.extend(rows)
extend(collected, new_rows) == collected \o new_rows

RunInit ==
    /\ RowsIdle
    /\ app \in Apps
    /\ endpoint = "none"
    /\ id_text = <<>>
    /\ id_values = <<>>
    /\ batches = <<>>
    /\ pc = "idle"
    /\ RunIdle

\* the rows a response adds: those of flatten_json for a parsed document that
\* flatten_json accepts, none otherwise (continue, or the except clause)
email_response_rows(outcome, site) ==
    IF outcome.kind = "json" THEN email_flatten_json(outcome.payload, site) ELSE <<>>

gui_response_rows(outcome, site) ==
    IF outcome.kind = "json" /\ ~gui_flatten_json(outcome.payload, site).exc
    THEN gui_flatten_json(outcome.payload, site).rows
    ELSE <<>>

\* a loop that ends with the batches of the first site
LastRequest_FirstSite == bi = Len(batches)

\* a result stored whether or not the run collected rows
stored_result_NeverAbsent(full_entries) == DataFrame(full_entries)

\* scholarone_gui_app lines 254-260: self._last_df after the loop
stored_result(full_entries) ==
    IF full_entries # <<>> THEN DataFrame(full_entries) ELSE NoDf

\* the loop is at its last (site, batch)
LastRequest == si = Len(sites) /\ bi = Len(batches)

\* Run clicked in the email application with no site selected (lines 280-283)
EmailRunNoSites ==
    /\ app = "email"
    /\ pc \in {"idle", "done"}
    /\ status' = "no sites"
    /\ pc' = "done"
    /\ written' = <<>>
    /\ UNCHANGED <<endpoint, id_text, sites, id_values, batches, params_date, si, bi,
                   all_rows, requests, responses, last_df>>
    /\ UNCHANGED app
    /\ UNCHANGED rowVars

\* Run clicked in the email application: lines 278-311, up to the first GET
EmailRunStart ==
    /\ app = "email"
    /\ pc \in {"idle", "done"}
    /\ \E e \in RunEndpoints, text \in RunTexts, selected \in SiteSelections \ {<<>>} :
          /\ endpoint' = e
          /\ id_text' = text
          /\ sites' = selected
          /\ params_date' = email_params_date(EMAIL_ENDPOINTS[e])
          /\ id_values' = normalize_ids(text)
          /\ batches' = email_batches(EMAIL_ENDPOINTS[e], normalize_ids(text))
    /\ all_rows' = <<>>
    /\ requests' = <<>>
    /\ responses' = <<>>
    /\ si' = 1
    /\ bi' = 1
    /\ pc' = "loop"
    /\ status' = "running"
    /\ written' = <<>>
    /\ UNCHANGED last_df
    /\ UNCHANGED app
    /\ UNCHANGED rowVars

\* one pass of the loop body of the email application (lines 313-349), and,
\* after the last pass, the end of the handler (lines 351-365)
EmailRequest ==
    /\ app = "email"
    /\ pc = "loop"
    /\ \E outcome \in Outcomes, excel_ok \in BOOLEAN :
          LET site == sites[si]
              batch == batches[bi]
              q == email_query(EMAIL_ENDPOINTS[endpoint], site, params_date, batch)
              collected == extend(all_rows, email_response_rows(outcome, site))
          IN /\ requests' = Append(requests, q)
             /\ responses' = Append(responses, [site |-> site, batch |-> batch,
                                             parsed |-> outcome.kind = "json",
                                             payload |-> outcome.payload])
             /\ all_rows' = collected
             /\ IF ~LastRequest
                THEN /\ excel_ok
                     /\ pc' = "loop"
                     /\ bi' = IF bi < Len(batches) THEN bi + 1 ELSE 1
                     /\ si' = IF bi < Len(batches) THEN si ELSE si + 1
                     /\ UNCHANGED <<status, written>>
                ELSE /\ pc' = "done"
                     /\ UNCHANGED <<si, bi>>
                     /\ IF collected = <<>>
                        THEN excel_ok /\ status' = "no data" /\ written' = <<>>
                        ELSE IF excel_ok
                        THEN status' = "exported" /\ written' = collected
                        ELSE status' = "excel error" /\ written' = <<>>
    /\ UNCHANGED <<endpoint, id_text, id_values, batches, sites, params_date, last_df>>
    /\ UNCHANGED app
    /\ UNCHANGED rowVars

\* Run clicked in scholarone_gui_app and rejected: no site selected (lines
\* 192-195), or a date endpoint whose dates convert_to_utc refuses (203-209)
GuiRunRejected ==
    /\ app = "gui"
    /\ pc \in {"idle", "done"}
    /\ \E e \in RunEndpoints, selected \in SiteSelections :
          \/ selected = <<>> /\ status' = "no sites"
          \/ selected # <<>> /\ GUI_ENDPOINTS[e]["requires_date"] /\ status' = "date error"
    /\ pc' = "done"
    /\ written' = <<>>
    /\ UNCHANGED <<endpoint, id_text, sites, id_values, batches, params_date, si, bi,
                   all_rows, requests, responses, last_df>>
    /\ UNCHANGED app
    /\ UNCHANGED rowVars

\* Run clicked in scholarone_gui_app: lines 191-227, up to the first GET
GuiRunStart ==
    /\ app = "gui"
    /\ pc \in {"idle", "done"}
    /\ \E e \in RunEndpoints, text \in RunTexts, selected \in SiteSelections \ {<<>>} :
          /\ endpoint' = e
          /\ id_text' = text
          /\ sites' = selected
          /\ params_date' = gui_params_date(GUI_ENDPOINTS[e])
          /\ id_values' = normalize_ids(text)
          /\ batches' = gui_batches(GUI_ENDPOINTS[e], normalize_ids(text))
    /\ all_rows' = <<>>
    /\ requests' = <<>>
    /\ responses' = <<>>
    /\ si' = 1
    /\ bi' = 1
    /\ pc' = "loop"
    /\ status' = "running"
    /\ written' = <<>>
    /\ UNCHANGED last_df
    /\ UNCHANGED app
    /\ UNCHANGED rowVars

\* one pass of the inner loop body of scholarone_gui_app (lines 229-252); the
\* batches are planned anew for the next site (lines 223-227); after the last
\* pass the handler stores the result (lines 254-260)
GuiRequest ==
    /\ app = "gui"
    /\ pc = "loop"
    /\ \E outcome \in Outcomes :
          LET site == sites[si]
              batch == batches[bi]
              q == gui_query(GUI_ENDPOINTS[endpoint], site, params_date, batch)
              collected == extend(all_rows, gui_response_rows(outcome, site))
          IN /\ requests' = Append(requests, q)
             /\ responses' = Append(responses, [site |-> site, batch |-> batch,
                                             parsed |-> outcome.kind = "json",
                                             payload |-> outcome.payload])
             /\ all_rows' = collected
             /\ IF ~LastRequest
                THEN /\ pc' = "loop"
                     /\ bi' = IF bi < Len(batches) THEN bi + 1 ELSE 1
                     /\ si' = IF bi < Len(batches) THEN si ELSE si + 1
                     /\ batches' = IF bi < Len(batches) THEN batches
                                   ELSE gui_batches(GUI_ENDPOINTS[endpoint], id_values)
                     /\ UNCHANGED <<status, last_df>>
                ELSE /\ pc' = "done"
                     /\ UNCHANGED <<si, bi, batches>>
                     /\ status' = IF collected # <<>> THEN "total rows" ELSE "no data"
                     /\ last_df' = stored_result(collected)
    /\ written' = <<>>
    /\ UNCHANGED <<endpoint, id_text, id_values, sites, params_date>>
    /\ UNCHANGED app
    /\ UNCHANGED rowVars

\* Export clicked in scholarone_gui_app (lines 262-272)
GuiExport ==
    /\ app = "gui"
    /\ pc \in {"idle", "done"}
    /\ IF ~last_df.present \/ last_df.rows = <<>>
       THEN status' = "nothing to export" /\ written' = <<>>
       ELSE \/ status' = "exported" /\ written' = last_df.rows
            \/ status' = "export error" /\ written' = <<>>
    /\ UNCHANGED <<endpoint, id_text, id_values, batches, pc, sites, params_date, si, bi,
                   all_rows, requests, responses, last_df>>
    /\ UNCHANGED app
    /\ UNCHANGED rowVars

RunNext ==
    \/ EmailRunNoSites
    \/ EmailRunStart
    \/ EmailRequest
    \/ GuiRunRejected
    \/ GuiRunStart
    \/ GuiRequest
    \/ GuiExport

SpecRun == RunInit /\ [][RunNext]_vars

-----------------------------------------------------------------------------
(* The scalar leaves of a JSON value and their traversal routes.           *)

KeyStep(k) == [kind |-> "key", k |-> k]
PosStep(i) == [kind |-> "pos", i |-> i]

\* the routes from the root of v to its scalar leaves
RECURSIVE LeafRoutes(_)
LeafRoutes(v) ==
    IF v.t = "dict"
    THEN UNION {{<<KeyStep(v.kvs[j][1])>> \o r : r \in LeafRoutes(v.kvs[j][2])}
                   : j \in 1..Len(v.kvs)}
    ELSE IF v.t = "list"
    THEN UNION {{<<PosStep(i)>> \o r : r \in LeafRoutes(v.elems[i])} : i \in 1..Len(v.elems)}
    ELSE {<<>>}

\* the scalar a route ends at
RECURSIVE LeafAt(_, _)
LeafAt(v, route) ==
    IF route = <<>> THEN v
    ELSE IF route[1].kind = "key" THEN LeafAt(dict_get(v, route[1].k, Null), Tail(route))
    ELSE LeafAt(v.elems[route[1].i], Tail(route))

\* the flat path key a route spells, starting from prefix P
RECURSIVE RouteKey(_, _)
RouteKey(P, route) ==
    IF route = <<>> THEN P
    ELSE IF route[1].kind = "key"
    THEN RouteKey(IF P = <<>> THEN route[1].k ELSE P \o Dot \o route[1].k, Tail(route))
    ELSE RouteKey(IF P = <<>> THEN IntStr(route[1].i) ELSE P \o Underscore \o IntStr(route[1].i),
                  Tail(route))

LeafKeys(v) == {RouteKey(<<>>, r) : r \in LeafRoutes(v)}

\* every mapping key of v is non-empty and holds neither "." nor "_"
RECURSIVE PlainKeys(_)
PlainKeys(v) ==
    IF v.t = "dict"
    THEN \A j \in 1..Len(v.kvs) :
            /\ v.kvs[j][1] # <<>>
            /\ \A c \in 1..Len(v.kvs[j][1]) : v.kvs[j][1][c] \notin {".", "_"}
            /\ PlainKeys(v.kvs[j][2])
    ELSE IF v.t = "list" THEN \A i \in 1..Len(v.elems) : PlainKeys(v.elems[i])
    ELSE TRUE

Flattened == op \in {"flatten", "_recurse"}
Assembled == op \in {"email", "gui"}

\* {"a": [1, {"b": 2}]}
ExampleNested ==
    JDict(<< <<<<"a">>, JList(<<JInt(1), JDict(<< <<<<"b">>, JInt(2)>> >>)>>)>> >>)

-----------------------------------------------------------------------------
(* C1 (as stated): the number of entries of flatten(v) equals the number   *)
(* of scalar leaves of v.                                                  *)
C1_LeafCountEqual ==
    Flattened => Cardinality(DOMAIN items) = Cardinality(LeafRoutes(obj))

(* C1 (amended): flatten(v) has at most as many entries as v has scalar    *)
(* leaves, and exactly as many whenever every mapping key of v is          *)
(* non-empty and holds neither the separator "." nor "_".                  *)
C1_LeafCountBound ==
    Flattened =>
        /\ Cardinality(DOMAIN items) <= Cardinality(LeafRoutes(obj))
        /\ PlainKeys(obj) => Cardinality(DOMAIN items) = Cardinality(LeafRoutes(obj))

C1_Witness ==
    /\ op = "flatten"
    /\ PlainKeys(obj)
    /\ obj.t = "dict"
    /\ Cardinality(LeafRoutes(obj)) = 3
    /\ Cardinality(DOMAIN items) = 3

-----------------------------------------------------------------------------
(* The envelope of a payload, read without the code's lookups.             *)

Missing == [t |-> "missing"]

\* the value at a path of mapping keys, Missing when the path cannot be followed
RECURSIVE At(_, _)
At(o, path) ==
    IF path = <<>> THEN o
    ELSE IF o.t = "dict" /\ \E j \in 1..Len(o.kvs) : o.kvs[j][1] = path[1]
    THEN At(dict_get(o, path[1], Null), Tail(path))
    ELSE Missing

PrimaryList(o) == At(o, <<Response, result, submission>>)
\* a step of Response.result.submission meets a value that is no mapping
WrongTypeOnPath(o) ==
    \/ o.t # "dict"
    \/ At(o, <<Response>>).t \notin {"missing", "dict"}
    \/ At(o, <<Response, result>>).t \notin {"missing", "dict"}
\* payload.Response.result if it is a list, else payload.result
FallbackList(o) ==
    IF At(o, <<Response, result>>).t = "list" THEN At(o, <<Response, result>>)
    ELSE At(o, <<result>>)

\* {site_name: label} merged with flatten(v)
MergedRow(label, v) == Update(SiteRow(label), flatten(v, <<>>, Dot))

-----------------------------------------------------------------------------
(* C2: toRows returns at least one row record for every non-null payload,  *)
(* a payload whose Response.result.submission is an empty list included.   *)
C2_AtLeastOneRow ==
    (Assembled /\ ~raised /\ obj # Null) => Len(rows) >= 1

-----------------------------------------------------------------------------
(* C3: toRows never raises; when a step of the envelope lookup meets the   *)
(* wrong type the result is exactly one row, {site_name: label} merged     *)
(* with the flattening of the whole payload.                               *)
C3_NeverRaises ==
    Assembled =>
        /\ ~raised
        /\ WrongTypeOnPath(obj) => rows = <<MergedRow(prefix, obj)>>

-----------------------------------------------------------------------------
(* C4: every row record returned by toRows(payload, label) has the key     *)
(* site_name, and its value is the label, whatever keys the payload has.   *)
C4_SiteNameIsLabel ==
    Assembled =>
        \A k \in 1..Len(rows) :
            /\ site_name \in DOMAIN rows[k]
            /\ rows[k][site_name] = JStr(prefix)

-----------------------------------------------------------------------------
(* C5: when payload.Response.result.submission is a list of n elements,    *)
(* toRows returns n rows in the list's order, the k-th being               *)
(* {site_name: label} merged with flatten(k-th element); when no record    *)
(* list is found it returns exactly one row, {site_name: label} merged     *)
(* with flatten(payload).                                                  *)
C5_RowsPerElement ==
    (Assembled /\ ~raised) =>
        /\ PrimaryList(obj).t = "list" =>
              rows = [k \in 1..Len(PrimaryList(obj).elems) |->
                         MergedRow(prefix, PrimaryList(obj).elems[k])]
        /\ (PrimaryList(obj).t # "list" /\ FallbackList(obj).t # "list") =>
              rows = <<MergedRow(prefix, obj)>>

-----------------------------------------------------------------------------
(* C6: when Response.result.submission is absent and payload.Response      *)
(* .result (or, failing that, payload.result) is a list, toRows produces   *)
(* one row per element of that list, not one row for the whole payload     *)
(* (stated for the lists that have elements).                              *)
C6_FallbackListRows ==
    (/\ Assembled
     /\ PrimaryList(obj) = Missing
     /\ FallbackList(obj).t = "list"
     /\ FallbackList(obj).elems # <<>>) =>
        /\ ~raised
        /\ rows = [k \in 1..Len(FallbackList(obj).elems) |->
                      IF op = "email" THEN email_row(FallbackList(obj).elems[k], prefix)
                      ELSE gui_row(FallbackList(obj).elems[k], prefix)]

-----------------------------------------------------------------------------
(* C9: normalize_ids(s) is the sequence of the maximal runs of characters  *)
(* of s that are not whitespace, comma, semicolon or pipe, in their order  *)
(* of occurrence; no token is empty or holds a separator, repeated tokens  *)
(* are kept, and a text without such a character gives no token.           *)

IsTokenChar(c) == c \notin {" ", "\t", "\n", "\r", "\f", ",", ";", "|"}

\* the positions where a maximal run of token characters starts
RunStarts(s) ==
    {i \in 1..Len(s) : IsTokenChar(s[i]) /\ (i = 1 \/ ~IsTokenChar(s[i - 1]))}
\* the position where the run that starts at i ends
RunEnd(s, i) ==
    CHOOSE j \in i..Len(s) :
        /\ \A k \in i..j : IsTokenChar(s[k])
        /\ j = Len(s) \/ ~IsTokenChar(s[j + 1])
\* the maximal runs, by position
TokenRuns(s) ==
    [n \in 1..Cardinality(RunStarts(s)) |->
        LET i == CHOOSE x \in RunStarts(s) : Cardinality({y \in RunStarts(s) : y <= x}) = n
        IN SubSeq(s, i, RunEnd(s, i))]

C9_TokensAreMaximalRuns ==
    pc \in {"normalized", "planned"} =>
        /\ id_values = TokenRuns(id_text)
        /\ \A n \in 1..Len(id_values) :
              /\ id_values[n] # <<>>
              /\ \A c \in 1..Len(id_values[n]) : IsTokenChar(id_values[n][c])
        /\ (\A c \in 1..Len(id_text) : ~IsTokenChar(id_text[c])) => id_values = <<>>
        /\ id_text = ExampleText =>
              id_values = << <<"1", "2", "3", "4", "5">>, <<"6", "7", "8", "9", "0">>,
                             <<"a", "@", "b", ".", "c", "o", "m">>,
                             <<"c", "@", "d", ".", "o", "r", "g">> >>

C9_Witness ==
    /\ pc = "normalized"
    /\ id_text = <<"1", "|", "1", ";">>
    /\ id_values = << <<"1">>, <<"1">> >>

-----------------------------------------------------------------------------
(* C8: for an endpoint that takes identifiers, a non-empty token sequence  *)
(* and batch size b, the planned batches concatenate to the token          *)
(* sequence, every batch is non-empty with at most b tokens, and every     *)
(* batch but the last has exactly b; for no tokens the plan is [[None]],   *)
(* whose request carries no identifier parameter.  With b = 2 the tokens   *)
(* 1 2 3 4 5 are planned as [1 2] [3 4] [5].                               *)

RECURSIVE Concat(_)
Concat(seqs) == IF seqs = <<>> THEN <<>> ELSE seqs[1] \o Concat(Tail(seqs))

\* the endpoint's configuration gives it an identifier kind
TakesIds == TruthyStr(conf_get(ENDPOINTS(app)[endpoint], "id_kind", NoneStr))
\* the batch size configured for the endpoint
BatchSizeOf ==
    IF app = "email" THEN conf_get(EMAIL_ENDPOINTS[endpoint], "batch_size", DefaultBatchSize)
    ELSE GuiBatchSize
\* the parameters of the GET for a batch, at site s
QueryFor(s, batch) ==
    IF app = "email" THEN email_query(EMAIL_ENDPOINTS[endpoint], s, EmptyDict, batch)
    ELSE gui_query(GUI_ENDPOINTS[endpoint], s, EmptyDict, batch)

C8_BatchesPartitionTokens ==
    (pc = "planned" /\ TakesIds) =>
        /\ id_values # <<>> =>
              /\ Concat(batches) = id_values
              /\ \A b \in 1..Len(batches) :
                    /\ batches[b] # <<>>
                    /\ Len(batches[b]) <= BatchSizeOf
                    /\ b < Len(batches) => Len(batches[b]) = BatchSizeOf
        /\ id_values = <<>> =>
              /\ batches = << <<None>> >>
              /\ \A s \in Sites : DOMAIN QueryFor(s, batches[1]) = {"_type", "site_name"}
        /\ chunks(<< <<"1">>, <<"2">>, <<"3">>, <<"4">>, <<"5">> >>, 2)
              = << << <<"1">>, <<"2">> >>, << <<"3">>, <<"4">> >>, << <<"5">> >> >>

C8_Witness ==
    /\ pc = "planned"
    /\ app = "gui"
    /\ TakesIds
    /\ Len(id_values) = 27
    /\ Len(batches) = 2
    /\ Len(batches[2]) = 2

-----------------------------------------------------------------------------
(* C10: in baseline flatten (and the email application's _recurse) the     *)
(* keys of the result are exactly the keys spelled by the routes to the    *)
(* scalar leaves (mapping key k: P + "." + k, or k when P is empty;        *)
(* 1-based position i: P + "_" + i, or i when P is empty), each entry      *)
(* holds a leaf reached under its key, strings are leaves, empty           *)
(* containers give no key, and {"a": [1, {"b": 2}]} gives a_1 = 1 and      *)
(* a_2.b = 2.                                                              *)
C10_KeysFollowRoutes ==
    Flattened =>
        /\ DOMAIN items = LeafKeys(obj)
        /\ \A key \in DOMAIN items :
              \E r \in LeafRoutes(obj) :
                 RouteKey(<<>>, r) = key /\ items[key] = LeafAt(obj, r)
        /\ \A r \in LeafRoutes(obj) :
              (\A r2 \in LeafRoutes(obj) : RouteKey(<<>>, r2) = RouteKey(<<>>, r) => r2 = r)
                 => items[RouteKey(<<>>, r)] = LeafAt(obj, r)
        /\ obj.t = "str" => items = (<<>> :> obj)
        /\ obj = ExampleNested =>
              items = (<<"a", "_", "1">> :> JInt(1)) @@ (<<"a", "_", "2", ".", "b">> :> JInt(2))

C10_Witness ==
    /\ op = "flatten"
    /\ obj = ExampleNested
    /\ <<"a", "_", "2", ".", "b">> \in DOMAIN items

-----------------------------------------------------------------------------
\* the (site, batch) pairs of a run in loop order: sites outside, batches inside
LoopOrder(ss, bs) ==
    [k \in 1..(Len(ss) * Len(bs)) |->
        <<ss[((k - 1) \div Len(bs)) + 1], bs[((k - 1) % Len(bs)) + 1]>>]

\* the rows of one response: those flatten_json makes of a parsed document,
\* none for a response that was not parsed or that flatten_json rejected
ParsedRows(r) ==
    IF ~r.parsed THEN <<>>
    ELSE IF app = "email" THEN email_flatten_json(r.payload, r.site)
    ELSE IF gui_flatten_json(r.payload, r.site).exc THEN <<>>
    ELSE gui_flatten_json(r.payload, r.site).rows

\* the rows of a response follow its submission list, element by element
InSubmissionOrder(r) ==
    LET L == PrimaryList(r.payload)
    IN (r.parsed /\ L.t = "list" /\ L.elems # <<>>) =>
          /\ Len(ParsedRows(r)) = Len(L.elems)
          /\ \A k \in 1..Len(L.elems) :
                ParsedRows(r)[k] =
                    IF app = "email" THEN email_row(L.elems[k], r.site)
                    ELSE gui_row(L.elems[k], r.site)

IsPrefix(xs, ys) == Len(xs) <= Len(ys) /\ SubSeq(ys, 1, Len(xs)) = xs

\* the responses received so far are those of the first (site, batch) pairs
ResponsesInLoopOrder ==
    /\ Len(responses) <= Len(sites) * Len(batches)
    /\ \A k \in 1..Len(responses) :
          <<responses[k].site, responses[k].batch>> = LoopOrder(sites, batches)[k]
    /\ pc = "loop" => Len(responses) = (si - 1) * Len(batches) + (bi - 1)
    /\ (pc = "done" /\ sites # <<>>) => Len(responses) = Len(sites) * Len(batches)

RowsAreConcatenation ==
    /\ all_rows = Concat([k \in 1..Len(responses) |-> ParsedRows(responses[k])])
    /\ \A k \in 1..Len(responses) : InSubmissionOrder(responses[k])

\* a pass of the loop leaves the rows collected so far where they are
RowsOnlyAppended == (pc = "loop") => IsPrefix(all_rows, all_rows')

(* C7: during and after a query run the row collection is the              *)
(* concatenation, in site order and within a site in batch order, of the   *)
(* rows of the parsed responses, each response's rows in submission-list   *)
(* order; a pass of the loop only appends to it, and equal rows of         *)
(* different responses are all kept.                                       *)
C7_RowsConcatenateInLoopOrder ==
    /\ [](ResponsesInLoopOrder /\ RowsAreConcatenation)
    /\ [][RowsOnlyAppended]_vars

\* a finished run of two sites and two batches, every response giving the
\* same two submissions: eight rows, the first and the third equal
C7_Witness ==
    /\ pc = "done"
    /\ Len(sites) = 2
    /\ Len(batches) = 2
    /\ Len(all_rows) = 8
    /\ all_rows[1] = all_rows[3]
    /\ all_rows[1] # all_rows[5]

-----------------------------------------------------------------------------
\* a JSON scalar: null, a number or a string
IsScalar(v) == v.t \in {"null", "int", "str"}

(* C11: for every JSON value of finite nesting flatten(v) returns (the     *)
(* call is enabled on every input), and every value of the returned        *)
(* mapping is a scalar: never a mapping, never a list.                     *)
C11_FlattenReturnsScalars ==
    /\ op = "init" => ENABLED DoFlatten
    /\ op = "flatten" => \A key \in DOMAIN items : IsScalar(items[key])

\* a list holding a mapping, flattened into two entries or more
C11_Witness ==
    /\ op = "flatten"
    /\ obj.t = "list"
    /\ \E i \in 1..Len(obj.elems) : obj.elems[i].t = "dict"
    /\ Cardinality(DOMAIN items) >= 2

-----------------------------------------------------------------------------
\* the leaf writes recurse makes for a record, in traversal order, each with
\* the key K it computes before looking into the row
RECURSIVE GuiWrites(_, _, _)
GuiWrites(o, path, index) ==
    IF o.t = "dict"
    THEN Concat([j \in 1..Len(o.kvs) |-> GuiWrites(o.kvs[j][2], Append(path, o.kvs[j][1]), NoIndex)])
    ELSE IF o.t = "list"
    THEN Concat([i \in 1..Len(o.elems) |-> GuiWrites(o.elems[i], path, <<i - 1>>)])
    ELSE <<[K |-> IF index = NoIndex THEN Join(Dot, path)
                  ELSE Join(Dot, path) \o Underscore \o IntStr(index[1] + 1),
            val |-> o]>>

\* K with the suffix _n
Suffixed(K, n) == K \o Underscore \o IntStr(n)

\* the key a leaf of key K is to be stored under in row: K when K is unused,
\* else K_n for the smallest n >= 2 with K_n unused
StoredUnder(row, K) ==
    IF K \notin DOMAIN row THEN K
    ELSE Suffixed(K, CHOOSE n \in 2..(Cardinality(DOMAIN row) + 2) :
                        /\ Suffixed(K, n) \notin DOMAIN row
                        /\ \A m \in 2..(n - 1) : Suffixed(K, m) \in DOMAIN row)

\* the row after the writes, none of them overwriting
RECURSIVE WriteAll(_, _)
WriteAll(writes, row) ==
    IF writes = <<>> THEN row
    ELSE WriteAll(Tail(writes), (StoredUnder(row, writes[1].K) :> writes[1].val) @@ row)

\* the records the rows of scholarone_gui_app are made of
GuiRecords ==
    IF IsList(gui_content(obj).val) THEN gui_content(obj).val.elems ELSE <<obj>>

(* C12: in scholarone_gui_app a leaf whose key K is already in the row is  *)
(* stored under K_n for the smallest n >= 2 with K_n unused, so no write   *)
(* replaces an entry: every row has exactly 1 + (number of scalar leaves   *)
(* of its record) keys and keeps site_name = the site label.               *)
C12_LeafWritesNeverOverwrite ==
    (op = "gui" /\ ~raised) =>
        /\ Len(rows) = Len(GuiRecords)
        /\ \A i \in 1..Len(rows) :
              /\ rows[i] = WriteAll(GuiWrites(GuiRecords[i], <<>>, NoIndex), SiteRow(prefix))
              /\ Cardinality(DOMAIN rows[i]) = 1 + Cardinality(LeafRoutes(GuiRecords[i]))
              /\ rows[i][site_name] = SiteRow(prefix)[site_name]

\* {"a": [[1], [2], [3]]}: the key a_1 three times, stored as a_1, a_1_2, a_1_3
C12_Witness ==
    /\ op = "gui"
    /\ ~raised
    /\ Len(rows) = 1
    /\ {<<"a", "_", "1">>, <<"a", "_", "1", "_", "2">>, <<"a", "_", "1", "_", "3">>}
          \subseteq DOMAIN rows[1]
    /\ rows[1][<<"a", "_", "1", "_", "3">>] = JInt(3)

-----------------------------------------------------------------------------
\* baseline flatten meets no key collision on the record: its leaves spell
\* pairwise different keys, none of them the reserved site_name
NoBaselineCollision(rec) ==
    /\ Cardinality(LeafKeys(rec)) = Cardinality(LeafRoutes(rec))
    /\ site_name \notin LeafKeys(rec)

(* C13: for every record on which baseline flatten meets no key collision  *)
(* the row of scholarone_gui_app is the site label plus the key-to-value   *)
(* mapping of baseline flatten, a leaf below position i of a sequence      *)
(* keeping its _i component (a_2.b for {"a": [1, {"b": 2}]}).              *)
C13_GuiRowsEqualBaseline ==
    (op = "gui" /\ ~raised) =>
        \A i \in 1..Len(rows) :
            NoBaselineCollision(GuiRecords[i]) =>
                rows[i] = MergedRow(prefix, GuiRecords[i])

-----------------------------------------------------------------------------
\* the endpoints the catalogue of the email application documents as taking
\* identifiers (header lines 3-4, and the comments "IDs required", "this uses
\* numeric IDs" and "uses emails" of lines 44-67 and 88-116)
DocumentedIdEndpoints ==
    {"getSubmissionInfoFull", "getDocumentInfoFull", "getPersonInfoFullID",
     "getPersonInfoFullEmail", "getSubmissionMetadataInfo", "getDocumentMetadataInfo",
     "getSubmissionReviewerInfoFull", "getDocumentReviewerInfoFull",
     "getSubmissionVersions", "getDocumentVersions"}

\* the tokens a request carries: the address under primary_email, or the
\* comma-joined identifiers under ids taken apart again
TokensCarried(q) ==
    IF "primary_email" \in DOMAIN q THEN <<q["primary_email"]>>
    ELSE IF "ids" \in DOMAIN q THEN normalize_ids(q["ids"])
    ELSE <<>>

\* the tokens carried by the requests of the run to one site, in request order
TokensSentTo(site) ==
    Concat([k \in 1..Len(requests) |->
               IF requests[k]["site_name"] = site THEN TokensCarried(requests[k]) ELSE <<>>])

(* C14: after a run of the email application on an endpoint documented as  *)
(* taking identifiers, with at least one token entered, the requests to    *)
(* each selected site carry every entered token exactly once, in input     *)
(* order.                                                                  *)
C14_EveryTokenSentOncePerSite ==
    (app = "email" /\ pc = "done" /\ sites # <<>>
         /\ endpoint \in DocumentedIdEndpoints /\ id_values # <<>>) =>
        \A s \in 1..Len(sites) : TokensSentTo(sites[s]) = id_values

-----------------------------------------------------------------------------
\* the query parameters the application builds for a (site, batch) pair
QueryOf(site, batch) ==
    IF app = "email" THEN email_query(EMAIL_ENDPOINTS[endpoint], site, params_date, batch)
    ELSE gui_query(GUI_ENDPOINTS[endpoint], site, params_date, batch)

\* the GETs issued so far are those of the first (site, batch) pairs, one
\* each, and a finished run has issued one for every pair
RequestsInLoopOrder ==
    /\ Len(requests) <= Len(sites) * Len(batches)
    /\ \A k \in 1..Len(requests) :
          requests[k] = QueryOf(LoopOrder(sites, batches)[k][1], LoopOrder(sites, batches)[k][2])
    /\ pc = "loop" => Len(requests) = (si - 1) * Len(batches) + (bi - 1)
    /\ (pc = "done" /\ sites # <<>>) => Len(requests) = Len(sites) * Len(batches)

\* the response r gave no rows to collect: no document was parsed, or
\* flatten_json of scholarone_gui_app raised on it
Failed(r) ==
    \/ ~r.parsed
    \/ app = "gui" /\ gui_flatten_json(r.payload, r.site).exc

\* a pass of the loop issues one GET; when its response fails the rows stay
\* as they are, and the loop goes on unless this was the last pair
OneGetPerPass ==
    (pc = "loop") =>
        /\ Len(requests') = Len(requests) + 1
        /\ Len(responses') = Len(responses) + 1
        /\ Failed(responses'[Len(responses')]) => all_rows' = all_rows
        /\ pc' = "loop" \/ Len(requests') = Len(sites) * Len(batches)

(* C15: in the query loop of both applications exactly one GET is issued   *)
(* for every (selected site, batch) pair, in site-then-batch order,        *)
(* whatever the earlier requests came to: a failed request (exception,     *)
(* status other than 200, empty body, unparsable or unflattenable          *)
(* document) adds no rows, leaves the collected rows unchanged and does    *)
(* not keep the remaining requests from being issued.                      *)
C15_OneGetPerSiteAndBatch ==
    /\ []RequestsInLoopOrder
    /\ [][OneGetPerPass]_vars

\* a finished run of scholarone_gui_app over two sites: flatten_json raised
\* on the first response, the second request was issued and gave two rows
C15_Witness ==
    /\ app = "gui"
    /\ pc = "done"
    /\ Len(requests) = 2
    /\ requests[1]["site_name"] # requests[2]["site_name"]
    /\ responses[1].parsed
    /\ Failed(responses[1])
    /\ Len(all_rows) = 2

-----------------------------------------------------------------------------
\* between clicks: no handler of scholarone_gui_app is running
GuiAtRest == app = "gui" /\ pc \in {"idle", "done"}

\* the stored result is that of the latest run that reached the query loop:
\* absent while there was none or when it collected no row, else its rows
StoredResultIsLatestRun ==
    GuiAtRest =>
        last_df = IF all_rows # <<>> THEN DataFrame(all_rows) ELSE NoDf

\* a file is written only from a stored result that is present and not
\* empty, and holds its rows
ExportOnlyOfRows ==
    (app = "gui" /\ written # <<>>) =>
        /\ last_df.present
        /\ last_df.rows # <<>>
        /\ written = last_df.rows

\* a click that does not end a query loop (a rejected run, an export, the
\* start of a run) leaves the stored result as it is, and a rejected run
\* and an export leave the collected rows too
StoredResultKept ==
    (app = "gui" /\ pc # "loop") =>
        /\ last_df' = last_df
        /\ pc' = "done" => all_rows' = all_rows

(* C16: in scholarone_gui_app, after any sequence of Run and Export        *)
(* clicks, the stored result is that of the most recent run that passed    *)
(* validation (absent initially, the new rows when that run collected at   *)
(* least one row, absent when it collected none, untouched by a rejected   *)
(* run and by export), and export writes a file only from a stored result  *)
(* that is not empty.                                                      *)
C16_StoredResultAndExport ==
    /\ [](StoredResultIsLatestRun /\ ExportOnlyOfRows)
    /\ [][StoredResultKept]_vars

\* the stored rows of a finished run exported to a file
C16_Witness ==
    /\ app = "gui"
    /\ pc = "done"
    /\ status = "exported"
    /\ last_df.present
    /\ Len(last_df.rows) = 4
    /\ written = last_df.rows

====
